---- MODULE Spec2Model ----
(***************************************************************************)
(* Model of the media downloader bot (src/index.js).                       *)
(*                                                                         *)
(* The file holds two builds of the same program: the CommonJS build       *)
(* (lines 1-305) and the TypeScript build (lines 306-627).  They differ    *)
(* only in the order of the two quality look-ups of downloadMedia, so the  *)
(* variable `build` selects the build and every other definition is        *)
(* shared.                                                                 *)
(*                                                                         *)
(* Strings whose characters the code inspects (URLs, messages, patterns,   *)
(* extensions) are sequences of one-character strings.  Strings the code   *)
(* only compares as a whole or passes through (type, quality, platform     *)
(* name, source, thumbnail) are TLA+ strings.  A missing field and the     *)
(* empty string/list are both falsy in every place the code reads them     *)
(* (`x || d`, `medias && medias.length > 0`, `data.url`), so a missing     *)
(* field is modelled as the empty value.                                   *)
(***************************************************************************)
EXTENDS Integers, Sequences, FiniteSets, TLC

VARIABLES
    build,             \* "js" (lines 1-305) or "ts" (lines 306-627)
    platformPatterns,  \* JSON.parse(process.env.PLATFORM_PATTERNS), read-only
    fn,                \* pure-function harness: [name, url, resp, ret, returned]
    h,                 \* message handlers: handler id -> handler frame
    files,             \* the temp directory: set of [path, by] entries
    db,                \* the Video collection: the documents saved so far
    clock              \* Date.now()

vars == <<build, platformPatterns, fn, h, files, db, clock>>

(***************************************************************************)
(* Bounds                                                                  *)
(***************************************************************************)
MaxMedias == 2
MaxUrlLen == 3
MaxPatLen == 2
MaxHandlers == 2
MaxClock == 1

(***************************************************************************)
(* String primitives                                                       *)
(***************************************************************************)
null == "null"

Uppers == <<"A","B","C","D","E","F","G","H","I","J","K","L","M",
            "N","O","P","Q","R","S","T","U","V","W","X","Y","Z">>
Lowers == <<"a","b","c","d","e","f","g","h","i","j","k","l","m",
            "n","o","p","q","r","s","t","u","v","w","x","y","z">>

lowerChar(c) ==
    IF \E k \in 1..26 : Uppers[k] = c
    THEN Lowers[CHOOSE k \in 1..26 : Uppers[k] = c]
    ELSE c

toLowerCase(s) == [k \in 1..Len(s) |-> lowerChar(s[k])]

startsWith(s, p) == Len(p) <= Len(s) /\ SubSeq(s, 1, Len(p)) = p

endsWith(s, p) == Len(p) <= Len(s) /\ SubSeq(s, Len(s) - Len(p) + 1, Len(s)) = p

includes(s, p) ==
    \E k \in 0..(Len(s) - Len(p)) : SubSeq(s, k + 1, k + Len(p)) = p

\* s.split('.').pop(): the part after the last '.', the whole string if none
splitPop(s) ==
    LET dots == {k \in 1..Len(s) : s[k] = "."}
    IN  IF dots = {} THEN s
        ELSE LET last == CHOOSE k \in dots : \A j \in dots : j <= k
             IN  SubSeq(s, last + 1, Len(s))

\* JS truthiness of a name-like value (null and '' are falsy)
truthy(x) == x /= null /\ x /= ""

(***************************************************************************)
(* identifyPlatform                                                        *)
(***************************************************************************)
RECURSIVE anyPattern(_, _, _)
anyPattern(urlLower, patterns, k) ==
    IF k > Len(patterns) THEN FALSE
    ELSE IF includes(urlLower, patterns[k]) THEN TRUE
    ELSE anyPattern(urlLower, patterns, k + 1)

RECURSIVE scanPlatforms(_, _, _)
scanPlatforms(urlLower, rules, n) ==
    IF n > Len(rules) THEN null
    ELSE IF anyPattern(urlLower, rules[n].patterns, 1) THEN rules[n].name
    ELSE scanPlatforms(urlLower, rules, n + 1)

identifyPlatform(url) == scanPlatforms(toLowerCase(url), platformPatterns, 1)

(***************************************************************************)
(* downloadMedia                                                           *)
(***************************************************************************)
\* Array.prototype.find over the indices `hits` of the elements satisfying
\* the callback: the index of the first one (0 when find returns undefined)
find(hits) ==
    IF hits = {} THEN 0
    ELSE CHOOSE k \in hits : \A j \in hits : k <= j

isVideoOf(media, quality) == media.type = "video" /\ media.quality = quality
isVideo(media) == media.type = "video"
isAudio(media) == media.type = "audio"
isImage(media) ==
    \/ media.type = "image"
    \/ media.extension = <<"j","p","g">>
    \/ media.extension = <<"p","n","g">>

\* CommonJS build: no_watermark is looked up first
bestVideoJs(medias) ==
    LET nw == find({k \in 1..Len(medias) : isVideoOf(medias[k], "no_watermark")})
        hd == find({k \in 1..Len(medias) : isVideoOf(medias[k], "hd_no_watermark")})
    IN  IF nw /= 0 THEN nw
        ELSE IF hd /= 0 THEN hd
        ELSE find({k \in 1..Len(medias) : isVideo(medias[k])})

\* TypeScript build: hd_no_watermark is looked up first
bestVideoTs(medias) ==
    LET hd == find({k \in 1..Len(medias) : isVideoOf(medias[k], "hd_no_watermark")})
        nw == find({k \in 1..Len(medias) : isVideoOf(medias[k], "no_watermark")})
    IN  IF hd /= 0 THEN hd
        ELSE IF nw /= 0 THEN nw
        ELSE find({k \in 1..Len(medias) : isVideo(medias[k])})

bestVideoOf(medias) ==
    IF build = "js" THEN bestVideoJs(medias) ELSE bestVideoTs(medias)

Thrown(msg) ==
    [ok |-> FALSE, error |-> msg, platform |-> "", mediaUrl |-> <<>>,
     thumbnail |-> "", type |-> "", extension |-> <<>>]

MediaInfo(platform, mediaUrl, thumbnail, type, extension) ==
    [ok |-> TRUE, error |-> "", platform |-> platform, mediaUrl |-> mediaUrl,
     thumbnail |-> thumbnail, type |-> type, extension |-> extension]

orElse(ext, dflt) == IF ext /= <<>> THEN ext ELSE dflt

resultPlatform(url, data) ==
    IF truthy(data.source) THEN data.source
    ELSE IF truthy(identifyPlatform(url)) THEN identifyPlatform(url)
    ELSE "unknown"

\* mutant: audio is preferred to video
selectFromMediasAudioFirst(platform, data) ==
    LET medias    == data.medias
        bestVideo == bestVideoOf(medias)
        bestAudio == find({k \in 1..Len(medias) : isAudio(medias[k])})
    IN  IF bestAudio /= 0 THEN
            MediaInfo(platform, medias[bestAudio].url, data.thumbnail, "audio",
                      orElse(medias[bestAudio].extension, <<"m","p","3">>))
        ELSE IF bestVideo /= 0 THEN
            MediaInfo(platform, medias[bestVideo].url, data.thumbnail, "video",
                      orElse(medias[bestVideo].extension, <<"m","p","4">>))
        ELSE Thrown("Media not found or failed to fetch.")

selectFromMedias(platform, data) ==
    LET medias    == data.medias
        bestVideo == bestVideoOf(medias)
        bestAudio == find({k \in 1..Len(medias) : isAudio(medias[k])})
        bestImage == IF bestVideo = 0 THEN find({k \in 1..Len(medias) : isImage(medias[k])}) ELSE 0
    IN  IF bestVideo /= 0 THEN
            MediaInfo(platform, medias[bestVideo].url, data.thumbnail, "video",
                      orElse(medias[bestVideo].extension, <<"m","p","4">>))
        ELSE IF bestAudio /= 0 THEN
            MediaInfo(platform, medias[bestAudio].url, data.thumbnail, "audio",
                      orElse(medias[bestAudio].extension, <<"m","p","3">>))
        ELSE IF bestImage /= 0 THEN
            MediaInfo(platform, medias[bestImage].url, data.thumbnail, "image",
                      orElse(medias[bestImage].extension, <<"j","p","g">>))
        ELSE Thrown("Media not found or failed to fetch.")

\* mutant: the url is inspected without lower-casing it
selectFromUrlCaseSensitive(platform, data) ==
    LET audio == \/ endsWith(data.url, <<".","m","p","3">>)
                 \/ endsWith(data.url, <<".","w","a","v">>)
                 \/ endsWith(data.url, <<".","o","g","g">>)
        image == \/ endsWith(data.url, <<".","j","p","g">>)
                 \/ endsWith(data.url, <<".","j","p","e","g">>)
                 \/ endsWith(data.url, <<".","p","n","g">>)
                 \/ endsWith(data.url, <<".","g","i","f">>)
    IN  IF audio THEN
            MediaInfo(platform, data.url, data.thumbnail, "audio", splitPop(data.url))
        ELSE IF image THEN
            MediaInfo(platform, data.url, data.thumbnail, "image", splitPop(data.url))
        ELSE
            MediaInfo(platform, data.url, data.thumbnail, "video", <<"m","p","4">>)

selectFromUrl(platform, data) ==
    LET urlLower == toLowerCase(data.url)
        audio == \/ endsWith(urlLower, <<".","m","p","3">>)
                 \/ endsWith(urlLower, <<".","w","a","v">>)
                 \/ endsWith(urlLower, <<".","o","g","g">>)
        image == \/ endsWith(urlLower, <<".","j","p","g">>)
                 \/ endsWith(urlLower, <<".","j","p","e","g">>)
                 \/ endsWith(urlLower, <<".","p","n","g">>)
                 \/ endsWith(urlLower, <<".","g","i","f">>)
    IN  IF audio THEN
            MediaInfo(platform, data.url, data.thumbnail, "audio", splitPop(urlLower))
        ELSE IF image THEN
            MediaInfo(platform, data.url, data.thumbnail, "image", splitPop(urlLower))
        ELSE
            MediaInfo(platform, data.url, data.thumbnail, "video", <<"m","p","4">>)

\* mutant: a payload of neither shape yields an empty result instead of an error
downloadMediaNullOnMissing(url, resp) ==
    IF resp.status /= "ok" THEN Thrown("Request failed")
    ELSE LET platform == resultPlatform(url, resp)
         IN  IF Len(resp.medias) > 0 THEN selectFromMedias(platform, resp)
             ELSE IF resp.url /= <<>> THEN selectFromUrl(platform, resp)
             ELSE MediaInfo(platform, <<>>, "", "", <<>>)

\* mutant: a media list without a usable candidate falls through to the url
downloadMediaFallThrough(url, resp) ==
    IF resp.status /= "ok" THEN Thrown("Request failed")
    ELSE LET platform == resultPlatform(url, resp)
         IN  IF Len(resp.medias) > 0 /\ selectFromMedias(platform, resp).ok
             THEN selectFromMedias(platform, resp)
             ELSE IF resp.url /= <<>> THEN selectFromUrl(platform, resp)
             ELSE Thrown("Media not found or failed to fetch.")

\* resp.status: "ok" (2xx with a JSON body), "network" (transport error) or
\* "http" (non-2xx): axios.request rejects for the last two
downloadMedia(url, resp) ==
    IF resp.status /= "ok" THEN Thrown("Request failed")
    ELSE LET platform == resultPlatform(url, resp)
         IN  IF Len(resp.medias) > 0 THEN selectFromMedias(platform, resp)
             ELSE IF resp.url /= <<>> THEN selectFromUrl(platform, resp)
             ELSE Thrown("Media not found or failed to fetch.")

(***************************************************************************)
(* Input universes                                                         *)
(***************************************************************************)
RECURSIVE SeqsUpTo(_, _)
SeqsUpTo(S, n) ==
    IF n = 0 THEN {<<>>}
    ELSE LET shorter == SeqsUpTo(S, n - 1)
         IN  shorter \cup {Append(s, c) : s \in shorter, c \in S}

\* the deployment's rule list used by the handlers and by downloadMedia
TikTokRules ==
    <<[name |-> "tiktok", patterns |-> <<<<"t","i","k">>, <<"v","t",".">>>>],
      [name |-> "x",      patterns |-> <<<<"x",".">>>>]>>

\* rule lists of the matcher check: two rules, the first with one or two
\* patterns, over an alphabet with an upper-case letter
MatchChars == {"a", "A", "b"}
MatchPatterns == SeqsUpTo(MatchChars, MaxPatLen) \ {<<>>}
MatchUrls == SeqsUpTo(MatchChars, MaxUrlLen)
MatchRules ==
    {<<[name |-> "p1", patterns |-> ps], [name |-> "p2", patterns |-> <<q>>]>> :
        ps \in {<<p>> : p \in MatchPatterns}
              \cup {<<p1, p2>> : p1 \in MatchPatterns, p2 \in MatchPatterns},
        q \in MatchPatterns}

\* media candidates of a multi-candidate payload, without their url
Candidates ==
    [type : {"video"}, quality : {"hd_no_watermark", "no_watermark", ""},
     extension : {<<>>, <<"w","e","b","m">>}]
    \cup [type : {"audio"}, quality : {"", "no_watermark"},
          extension : {<<>>, <<"m","4","a">>}]
    \cup [type : {"image"}, quality : {""},
          extension : {<<>>, <<"p","n","g">>}]
    \cup [type : {"unknown"}, quality : {""},
          extension : {<<>>, <<"j","p","g">>, <<"p","n","g">>, <<"m","4","a">>}]

\* the k-th candidate of a list gets the url <<"u", k>>-like name "k"
Digits == <<"1", "2", "3", "4", "5", "6", "7", "8", "9">>
withUrls(cs) ==
    [k \in 1..Len(cs) |->
        [type |-> cs[k].type, quality |-> cs[k].quality,
         extension |-> cs[k].extension, url |-> <<"u", Digits[k]>>]]

MediaLists == {withUrls(cs) : cs \in SeqsUpTo(Candidates, MaxMedias)}

\* bare urls of a single-URL payload: a stem followed by a tail
UrlTails ==
    { <<".","m","p","3">>, <<".","M","P","3">>, <<".","w","a","v">>,
      <<".","o","g","g">>, <<".","j","p","g">>, <<".","j","p","e","g">>,
      <<".","p","n","g">>, <<".","P","n","G">>, <<".","g","i","f">>,
      <<".","m","p","4">>, <<".","p","n","g","?","x">>, <<"p","n","g">>,
      <<".","m","p","3",".","g","i","f">>, <<".","g","i","f",".","o","g","g">>,
      <<"/","v">> }
UrlStems == SeqsUpTo({"a", "."}, MaxUrlLen - 2) \ {<<>>}
BareUrls == {s \o t : s \in UrlStems, t \in UrlTails}

Sources == {"", "srcname"}
Thumbnails == {"", "thumb"}

\* 2xx payloads: a media list (with or without a bare url beside it), or a
\* bare url alone, or neither
Payloads ==
    [status : {"ok"}, source : Sources, thumbnail : Thumbnails,
     medias : MediaLists, url : {<<>>, <<"a",".","p","n","g">>}]
    \cup [status : {"ok"}, source : Sources, thumbnail : Thumbnails,
          medias : {<<>>}, url : BareUrls]

FailedResponse(kind) ==
    [status |-> kind, source |-> "", thumbnail |-> "", medias |-> <<>>, url |-> <<>>]

Responses == Payloads \cup {FailedResponse("network"), FailedResponse("http")}

\* the original input urls of the selector check
InputUrls == { <<"h","t","t","p",":","t","i","k">>, <<"h","t","t","p",":","q">> }

(***************************************************************************)
(* State                                                                   *)
(***************************************************************************)
NoCall == [name |-> "", url |-> <<>>, resp |-> FailedResponse("none"),
           ret |-> Thrown(""), returned |-> FALSE]

IdleFrame ==
    [pc |-> "idle", message |-> <<>>, platform |-> null,
     resp |-> FailedResponse("none"),
     mediaInfo |-> Thrown(""), filePath |-> <<>>, log |-> <<>>]

HandlersIdle ==
    /\ h = [i \in 1..MaxHandlers |-> IdleFrame]
    /\ files = {}
    /\ db = {}
    /\ clock = 0

(***************************************************************************)
(* SpecMatch: identifyPlatform over every rule list and url                *)
(***************************************************************************)
InitMatch ==
    /\ build = "ts"
    /\ platformPatterns \in MatchRules
    /\ \E u \in MatchUrls :
          fn = [NoCall EXCEPT !.name = "identifyPlatform", !.url = u]
    /\ HandlersIdle

CallIdentifyPlatform ==
    /\ fn.name = "identifyPlatform"
    /\ ~fn.returned
    /\ fn' = [fn EXCEPT !.returned = TRUE,
                        !.ret = [Thrown("") EXCEPT !.platform = identifyPlatform(fn.url)]]
    /\ UNCHANGED <<build, platformPatterns, h, files, db, clock>>

NextMatch == CallIdentifyPlatform

SpecMatch == InitMatch /\ [][NextMatch]_vars

(***************************************************************************)
(* SpecSelect: downloadMedia over every response, in both builds           *)
(***************************************************************************)
InitSelect ==
    /\ build \in {"js", "ts"}
    /\ platformPatterns = TikTokRules
    /\ \E u \in InputUrls, r \in Responses :
          fn = [NoCall EXCEPT !.name = "downloadMedia", !.url = u, !.resp = r]
    /\ HandlersIdle

CallDownloadMedia ==
    /\ fn.name = "downloadMedia"
    /\ ~fn.returned
    /\ fn' = [fn EXCEPT !.returned = TRUE, !.ret = downloadMedia(fn.url, fn.resp)]
    /\ UNCHANGED <<build, platformPatterns, h, files, db, clock>>

NextSelect == CallDownloadMedia

SpecSelect == InitSelect /\ [][NextSelect]_vars

(***************************************************************************)
(* The text-message handler, bot.on('text'), and sendMediaToUser           *)
(*                                                                         *)
(* Every await is a suspension point, so a handler is a frame with a pc    *)
(* and one action per continuation.  log is the sequence of calls the      *)
(* handler has made on the conversation, the store and the file system.    *)
(***************************************************************************)
\* messages sent to the bot (Telegram text messages are never empty)
LinkTik     == <<"h","t","t","p",":","t","i","k">>
LinkInText  == <<"s"," ","h","t","t","p",":","t","i","k">>
LinkWww     == <<"w","w","w",".","x",".">>
LinkUnknown == <<"h","t","t","p",":","q">>
LinkUpper   == <<"H","T","T","P",":","T","I","K">>
BareName    == <<"t","i","k">>
Command     == <<"/","s">>

Messages == {LinkTik, LinkInText, LinkWww, LinkUnknown, LinkUpper, BareName, Command}

Media(type, quality, url) ==
    [type |-> type, quality |-> quality, extension |-> <<>>, url |-> url]

VideoList ==
    [status |-> "ok", source |-> "srcname", thumbnail |-> "thumb",
     medias |-> <<Media("video", "hd_no_watermark", <<"u","1">>)>>, url |-> <<>>]
AudioList ==
    [status |-> "ok", source |-> "", thumbnail |-> "",
     medias |-> <<Media("audio", "", <<"u","1">>)>>, url |-> <<>>]
BareVideo ==
    [status |-> "ok", source |-> "", thumbnail |-> "",
     medias |-> <<>>, url |-> <<"a","/","v">>]
BarePng ==
    [status |-> "ok", source |-> "", thumbnail |-> "",
     medias |-> <<>>, url |-> <<"a",".","p","n","g">>]
NeitherShape ==
    [status |-> "ok", source |-> "", thumbnail |-> "", medias |-> <<>>, url |-> <<>>]
NoCandidate ==
    [status |-> "ok", source |-> "", thumbnail |-> "",
     medias |-> <<Media("unknown", "", <<"u","1">>)>>, url |-> <<>>]

\* handler 1 is driven with every message and response; the handlers that
\* run beside it carry one link and the responses that lead to a video file
MessagesOf(i) == IF i = 1 THEN Messages ELSE {LinkTik}
ResponsesOf(i) ==
    IF i = 1
    THEN {VideoList, AudioList, BarePng, NeitherShape, NoCandidate,
          FailedResponse("network"), FailedResponse("http")}
    ELSE {BareVideo, FailedResponse("network")}

Event(call, text, path, ok) ==
    [call |-> call, text |-> text, path |-> path, ok |-> ok]

Logged(f, call, text, ok) ==
    [f EXCEPT !.log = Append(@, Event(call, text, f.filePath, ok))]

Calls(f, call) == {k \in 1..Len(f.log) : f.log[k].call = call}

\* catch of the handler (lines 265-268): one notice naming the handler's platform
handlerCatch(f) ==
    [Logged(f, "reply:handlerError", f.platform, TRUE) EXCEPT !.pc = "done"]

\* mutant: the error propagates out of sendMediaToUser to the handler's catch
deliveryCatchRethrow(f) ==
    handlerCatch(Logged(f, "reply:sendFailed", f.mediaInfo.type, TRUE))

\* outer catch of sendMediaToUser (lines 193-196): one notice, nothing rethrown
deliveryCatch(f) ==
    [Logged(f, "reply:sendFailed", f.mediaInfo.type, TRUE) EXCEPT !.pc = "done"]

\* mutant: only http marks a link
isLinkHttpOnly(message) == includes(message, <<"h","t","t","p">>)

\* line 256
isLink(message) ==
    \/ includes(message, <<"h","t","t","p">>)
    \/ includes(message, <<"w","w","w",".">>)

\* lines 252-274, up to the first await
onText(f, message) ==
    LET g == [f EXCEPT !.message = message]
    IN  IF build = "ts" /\ message = <<>> THEN
            [Logged(g, "reply:invalid", "", TRUE) EXCEPT !.pc = "done"]
        ELSE IF startsWith(message, <<"/">>) THEN
            [g EXCEPT !.pc = "done"]
        ELSE IF isLink(message) THEN
            LET platform == identifyPlatform(message)
                m == [Logged(g, "identifyPlatform", platform, TRUE)
                        EXCEPT !.platform = platform]
            IN  IF truthy(platform)
                THEN [Logged(m, "reply:processing", platform, TRUE)
                        EXCEPT !.pc = "downloadMedia"]
                ELSE [Logged(m, "reply:unsupported", "", TRUE) EXCEPT !.pc = "done"]
        ELSE [Logged(g, "reply:sendLink", "", TRUE) EXCEPT !.pc = "done"]

\* mutant: a failed extraction is treated as a result
onDownloadedIgnoringError(f, r) ==
    [Logged(f, "downloadMedia", r.error, r.ok)
        EXCEPT !.pc = "saveVideo", !.mediaInfo = r]

\* line 262: the awaited downloadMedia settles with r
onDownloaded(f, r) ==
    IF r.ok
    THEN [Logged(f, "downloadMedia", "", TRUE)
            EXCEPT !.pc = "saveVideo", !.mediaInfo = r]
    ELSE handlerCatch(Logged(f, "downloadMedia", r.error, FALSE))

\* lines 28-34: the document handed to video.save()
\* mutant: the record carries the platform the handler identified
VideoRecordHandlerPlatform(i, f) ==
    [platform |-> f.platform, video_url |-> f.mediaInfo.mediaUrl,
     video_thumbnail |-> f.mediaInfo.thumbnail, original_url |-> f.message,
     by |-> i]

VideoRecord(i, f) ==
    [platform |-> f.mediaInfo.platform, video_url |-> f.mediaInfo.mediaUrl,
     video_thumbnail |-> f.mediaInfo.thumbnail, original_url |-> f.message,
     by |-> i]

\* lines 145-156: <type>_<timestamp>.<extension>, as its three parts
filePathOf(mediaInfo, timestamp) ==
    IF mediaInfo.type = "video"
    THEN <<"video", timestamp, orElse(mediaInfo.extension, <<"m","p","4">>)>>
    ELSE IF mediaInfo.type = "audio"
    THEN <<"audio", timestamp, orElse(mediaInfo.extension, <<"m","p","3">>)>>
    ELSE IF mediaInfo.type = "image"
    THEN <<"image", timestamp, orElse(mediaInfo.extension, <<"j","p","g">>)>>
    ELSE <<"media", timestamp, orElse(mediaInfo.extension, <<"b","i","n">>)>>

\* lines 161-181: the send method chosen by type
sendMethod(type) ==
    IF type = "video" THEN "replyWithVideo"
    ELSE IF type = "audio" THEN "replyWithAudio"
    ELSE IF type = "image" THEN "replyWithPhoto"
    ELSE "replyWithDocument"

Exists(path) == \E e \in files : e.path = path
WriteFile(path, i) == {e \in files : e.path /= path} \cup {[path |-> path, by |-> i]}

Init ==
    /\ build \in {"js", "ts"}
    /\ platformPatterns = TikTokRules
    /\ fn = NoCall
    /\ HandlersIdle

\* a text message arrives and its handler runs to its first await
OnText(i, message) ==
    /\ h[i].pc = "idle"
    /\ h' = [h EXCEPT ![i] = onText(@, message)]
    /\ UNCHANGED <<build, platformPatterns, fn, files, db, clock>>

\* line 262 resumes: the extraction API answered resp
DownloadMedia(i, resp) ==
    /\ h[i].pc = "downloadMedia"
    /\ h' = [h EXCEPT ![i] = onDownloaded([@ EXCEPT !.resp = resp],
                                           downloadMedia(@.message, resp))]
    /\ UNCHANGED <<build, platformPatterns, fn, files, db, clock>>

\* mutant: a rejected video.save() is swallowed and delivery goes on
SaveVideoSwallowed(i, ok) ==
    /\ h[i].pc = "saveVideo"
    /\ db' = IF ok THEN db \cup {VideoRecord(i, h[i])} ELSE db
    /\ h' = [h EXCEPT ![i] = [Logged(@, "saveVideo", "", ok)
                                EXCEPT !.pc = "replyDownloading"]]
    /\ UNCHANGED <<build, platformPatterns, fn, files, clock>>

\* line 263 resumes: video.save() resolved (ok) or rejected
SaveVideo(i, ok) ==
    /\ h[i].pc = "saveVideo"
    /\ IF ok
       THEN /\ db' = db \cup {VideoRecord(i, h[i])}
            /\ h' = [h EXCEPT ![i] = [Logged(@, "saveVideo", "", TRUE)
                                        EXCEPT !.pc = "replyDownloading"]]
       ELSE /\ db' = db
            /\ h' = [h EXCEPT ![i] = handlerCatch(Logged(@, "saveVideo", "", FALSE))]
    /\ UNCHANGED <<build, platformPatterns, fn, files, clock>>

\* line 138 resumes: the "downloading" notice was sent or failed
ReplyDownloading(i, ok) ==
    /\ h[i].pc = "replyDownloading"
    /\ h' = [h EXCEPT ![i] =
               IF ok
               THEN [Logged(@, "reply:downloading", @.mediaInfo.type, TRUE)
                       EXCEPT !.pc = "axiosGet"]
               ELSE deliveryCatch(Logged(@, "reply:downloading", @.mediaInfo.type, FALSE))]
    /\ UNCHANGED <<build, platformPatterns, fn, files, db, clock>>

\* lines 140-158 resume: the bytes arrived; the file is named and written,
\* and the type-specific send is started
AxiosGet(i, ok) ==
    /\ h[i].pc = "axiosGet"
    /\ IF ok
       THEN LET path == filePathOf(h[i].mediaInfo, clock)
            IN  /\ files' = WriteFile(path, i)
                /\ h' = [h EXCEPT ![i] =
                           Logged([@ EXCEPT !.pc = "send", !.filePath = path],
                                  "writeFileSync", "", TRUE)]
       ELSE /\ files' = files
            /\ h' = [h EXCEPT ![i] = deliveryCatch(Logged(@, "axios.get", "", FALSE))]
    /\ UNCHANGED <<build, platformPatterns, fn, db, clock>>

Sent(f, call, ok) == Logged(f, call, f.mediaInfo.platform, ok)

\* lines 161-181 resume: the type-specific send succeeded (then fs.unlink is
\* called, line 190) or failed (then the fallback is started, line 184).
\* The code does not test the file before or after the send: whether the send
\* resolves is decided by the Telegram client alone, also when another handler
\* has already unlinked the shared path.
TypeSend(i, ok) ==
    /\ h[i].pc = "send"
    /\ h' = [h EXCEPT ![i] =
               [Sent(@, sendMethod(@.mediaInfo.type), ok)
                  EXCEPT !.pc = IF ok THEN "unlink" ELSE "fallback"]]
    /\ UNCHANGED <<build, platformPatterns, fn, files, db, clock>>

\* lines 184-187 resume: the generic-document send succeeded or failed, again
\* whatever the state of the file
FallbackSend(i, ok) ==
    /\ h[i].pc = "fallback"
    /\ h' = [h EXCEPT ![i] =
               IF ok
               THEN [Sent(@, "replyWithDocument:fallback", TRUE) EXCEPT !.pc = "unlink"]
               ELSE deliveryCatch(Sent(@, "replyWithDocument:fallback", FALSE))]
    /\ UNCHANGED <<build, platformPatterns, fn, files, db, clock>>

\* lines 190-192: the unlink requested at line 190 completes; an error
\* (the file is already gone) is only logged
Unlink(i) ==
    /\ h[i].pc = "unlink"
    /\ files' = {e \in files : e.path /= h[i].filePath}
    /\ h' = [h EXCEPT ![i] =
               [Sent(@, "unlink", Exists(@.filePath)) EXCEPT !.pc = "done"]]
    /\ UNCHANGED <<build, platformPatterns, fn, db, clock>>

\* Date.now() advances.  The clock is read only at line 145, so its advance
\* is observable only while some handler is about to read it.
Tick ==
    /\ clock < MaxClock
    /\ \E i \in 1..MaxHandlers : h[i].pc = "axiosGet"
    /\ clock' = clock + 1
    /\ UNCHANGED <<build, platformPatterns, fn, h, files, db>>

Next ==
    \/ \E i \in 1..MaxHandlers :
        \/ \E message \in MessagesOf(i) : OnText(i, message)
        \/ \E resp \in ResponsesOf(i) : DownloadMedia(i, resp)
        \/ \E ok \in BOOLEAN : SaveVideo(i, ok)
        \/ \E ok \in BOOLEAN : ReplyDownloading(i, ok)
        \/ \E ok \in BOOLEAN : AxiosGet(i, ok)
        \/ \E ok \in BOOLEAN : TypeSend(i, ok)
        \/ \E ok \in BOOLEAN : FallbackSend(i, ok)
        \/ Unlink(i)
    \/ Tick

Spec == Init /\ [][Next]_vars

(***************************************************************************)
(* Claims about downloadMedia (SpecSelect) and identifyPlatform (SpecMatch)*)
(***************************************************************************)
Selected == fn.name = "downloadMedia" /\ fn.returned /\ fn.resp.status = "ok"

HasVideoOf(quality) ==
    \E k \in 1..Len(fn.resp.medias) :
        fn.resp.medias[k].type = "video" /\ fn.resp.medias[k].quality = quality

\* the result is candidate k presented as class `type` with default `dflt`
IsCandidate(k, type, dflt) ==
    /\ fn.ret.ok
    /\ fn.ret.type = type
    /\ fn.ret.mediaUrl = fn.resp.medias[k].url
    /\ fn.ret.extension =
          (IF fn.resp.medias[k].extension = <<>> THEN dflt
           ELSE fn.resp.medias[k].extension)

\* C1: a media list holding both an hd_no_watermark video and a no_watermark
\* video, in any order, yields the url of an hd_no_watermark video.
C1_HdNoWatermarkWins ==
    (/\ Selected
     /\ HasVideoOf("hd_no_watermark")
     /\ HasVideoOf("no_watermark"))
    => /\ fn.ret.ok
       /\ \E k \in 1..Len(fn.resp.medias) :
             /\ fn.resp.medias[k].type = "video"
             /\ fn.resp.medias[k].quality = "hd_no_watermark"
             /\ fn.ret.mediaUrl = fn.resp.medias[k].url

\* C6: for a non-empty media list the result is a video candidate if the list
\* has one, else an audio candidate if it has one, else a candidate of type
\* image or extension jpg/png; type is the class chosen and extension is the
\* candidate's own, or mp4 / mp3 / jpg when it has none.
C6_PriorityVideoAudioImage ==
    (Selected /\ Len(fn.resp.medias) > 0) =>
        LET ms == fn.resp.medias
            V == {k \in 1..Len(ms) : ms[k].type = "video"}
            A == {k \in 1..Len(ms) : ms[k].type = "audio"}
            I == {k \in 1..Len(ms) : \/ ms[k].type = "image"
                                      \/ ms[k].extension = <<"j","p","g">>
                                      \/ ms[k].extension = <<"p","n","g">>}
        IN  IF V /= {} THEN \E k \in V : IsCandidate(k, "video", <<"m","p","4">>)
            ELSE IF A /= {} THEN \E k \in A : IsCandidate(k, "audio", <<"m","p","3">>)
            ELSE I /= {} => \E k \in I : IsCandidate(k, "image", <<"j","p","g">>)

\* C6 witness: a list with an audio candidate without extension and no video
\* candidate was selected from, giving audio/mp3
C6_Witness ==
    /\ Selected
    /\ Len(fn.resp.medias) = 2
    /\ \A k \in 1..Len(fn.resp.medias) : fn.resp.medias[k].type /= "video"
    /\ fn.resp.medias[2].type = "audio" /\ fn.resp.medias[2].extension = <<>>
    /\ fn.resp.medias[1].type = "unknown"
    /\ fn.ret.type = "audio" /\ fn.ret.extension = <<"m","p","3">>
    /\ fn.ret.mediaUrl = fn.resp.medias[2].url

SingleUrlShape == Selected /\ fn.resp.medias = <<>> /\ fn.resp.url /= <<>>

\* the url's own suffix: what follows its last '.', nothing without a '.'
UrlSuffix(url) ==
    IF \E k \in 1..Len(url) : url[k] = "."
    THEN SubSeq(url, (CHOOSE k \in 1..Len(url) :
                         url[k] = "." /\ \A j \in (k+1)..Len(url) : url[j] /= ".") + 1,
                Len(url))
    ELSE <<>>

AudioSuffixes == {<<"m","p","3">>, <<"w","a","v">>, <<"o","g","g">>}
ImageSuffixes == {<<"j","p","g">>, <<"j","p","e","g">>, <<"p","n","g">>, <<"g","i","f">>}

\* C9: for a single-URL payload the type and extension follow the url's
\* suffix, compared without regard to case: mp3/wav/ogg give audio,
\* jpg/jpeg/png/gif give image, both with the (lower-cased) suffix as the
\* extension; every other url gives video/mp4.
C9_SingleUrlInference ==
    SingleUrlShape =>
        LET suffix == toLowerCase(UrlSuffix(fn.resp.url))
        IN  /\ fn.ret.ok
            /\ fn.ret.mediaUrl = fn.resp.url
            /\ IF suffix \in AudioSuffixes
                THEN fn.ret.type = "audio" /\ fn.ret.extension = suffix
                ELSE IF suffix \in ImageSuffixes
                THEN fn.ret.type = "image" /\ fn.ret.extension = suffix
                ELSE fn.ret.type = "video" /\ fn.ret.extension = <<"m","p","4">>

\* C9 witness: a bare url ending in an upper-case .PnG gave image/png
C9_Witness ==
    /\ SingleUrlShape
    /\ fn.resp.url = <<"a",".","P","n","G">>
    /\ fn.ret.type = "image"
    /\ fn.ret.extension = <<"p","n","g">>

\* C10: a payload with neither a media list nor a bare url makes
\* downloadMedia throw; it never returns a result.
C10_NeitherShapeThrows ==
    (Selected /\ fn.resp.medias = <<>> /\ fn.resp.url = <<>>)
    => (~fn.ret.ok /\ fn.ret.error = "Media not found or failed to fetch.")

\* C10 witness: such a payload was processed and the call threw
C10_Witness ==
    /\ Selected
    /\ fn.resp.medias = <<>> /\ fn.resp.url = <<>>
    /\ fn.resp.source = "srcname"
    /\ ~fn.ret.ok

\* the first rule, in list order, one of whose patterns is contained in the
\* url when the case of both is ignored
FirstRuleIgnoringCase(url) ==
    LET hit(n) == \E k \in 1..Len(platformPatterns[n].patterns) :
                      includes(toLowerCase(url),
                               toLowerCase(platformPatterns[n].patterns[k]))
        hits == {n \in 1..Len(platformPatterns) : hit(n)}
    IN  IF hits = {} THEN null
        ELSE platformPatterns[CHOOSE n \in hits : \A m \in hits : n <= m].name

\* C4: identifyPlatform returns the name of the first rule that has a pattern
\* contained in the url as a case-insensitive substring (the case of neither
\* the url nor the pattern matters), and none exactly when there is no such
\* rule.
C4_CaseInsensitiveFirstMatch ==
    (fn.name = "identifyPlatform" /\ fn.returned)
    => fn.ret.platform = FirstRuleIgnoringCase(fn.url)

(***************************************************************************)
(* Claims about the handler and sendMediaToUser (Spec)                     *)
(***************************************************************************)
Handlers == 1..MaxHandlers

Made(i, call) == Calls(h[i], call) /= {}
Failed(i, call) == \E k \in Calls(h[i], call) : ~h[i].log[k].ok

SendCalls == {"replyWithVideo", "replyWithAudio", "replyWithPhoto",
              "replyWithDocument", "replyWithDocument:fallback"}
TypeSendCalls == SendCalls \ {"replyWithDocument:fallback"}

Sends(i) == {k \in 1..Len(h[i].log) : h[i].log[k].call \in SendCalls}
TypeSendFailed(i) ==
    \E k \in Sends(i) : h[i].log[k].call \in TypeSendCalls /\ ~h[i].log[k].ok

Wrote(i) == Made(i, "writeFileSync")

\* C2: once sendMediaToUser has written the temporary file, the file is
\* absent in every terminal state of the delivery (unless its deletion
\* failed, which is only logged).
C2_TempFileDeletedOnEveryExit ==
    \A i \in Handlers :
        (h[i].pc = "done" /\ Wrote(i))
        => \/ ~ \E e \in files : e.path = h[i].filePath /\ e.by = i
           \/ Failed(i, "unlink")

\* C3: a failed type-specific send is followed by exactly one
\* generic-document attempt; when that fails too the handler ends with
\* exactly one failure notice, no further send, and no handler-level error
\* notice (nothing propagated out of sendMediaToUser).
C3_OneFallbackOneNotice ==
    \A i \in Handlers :
        LET log == h[i].log
            fallbacks == Calls(h[i], "replyWithDocument:fallback")
        IN  /\ Cardinality(fallbacks) <= 1
            /\ (TypeSendFailed(i) /\ h[i].pc /= "fallback")
                  => Cardinality(fallbacks) = 1
            /\ (fallbacks /= {}) => TypeSendFailed(i)
            /\ Failed(i, "replyWithDocument:fallback")
                  => /\ h[i].pc = "done"
                     /\ Cardinality(Calls(h[i], "reply:sendFailed")) = 1
                     /\ Cardinality(Calls(h[i], "reply:handlerError")) = 0
                     /\ Cardinality(Sends(i)) = 2
                     /\ log[Len(log)].call = "reply:sendFailed"
                     /\ log[Len(log) - 1].call = "replyWithDocument:fallback"
                     /\ log[Len(log) - 2].call \in TypeSendCalls

\* C3 witness: a handler whose type-specific send and fallback both failed
C3_Witness ==
    /\ h[1].pc = "done"
    /\ Failed(1, "replyWithAudio")
    /\ Failed(1, "replyWithDocument:fallback")
    /\ Made(1, "reply:sendFailed")

\* C5: when downloadMedia fails (transport error, non-2xx, no usable
\* candidate) the handler persists no record, never starts delivery, and
\* ends with an error notice naming the platform identified for the url.
C5_ExtractionFailureAbandons ==
    \A i \in Handlers :
        Failed(i, "downloadMedia")
        => LET log == h[i].log
           IN  /\ h[i].pc = "done"
               /\ ~ \E r \in db : r.by = i
               /\ ~Made(i, "saveVideo")
               /\ ~Made(i, "reply:downloading") /\ ~Made(i, "axios.get")
               /\ ~Wrote(i) /\ Sends(i) = {}
               /\ log[Len(log)].call = "reply:handlerError"
               /\ log[Len(log)].text = identifyPlatform(h[i].message)
               /\ truthy(log[Len(log)].text)
               /\ Cardinality(Calls(h[i], "reply:handlerError")) = 1

\* C5 witness: extraction found no usable candidate for a link inside a
\* sentence, while another handler did persist its record
C5_Witness ==
    /\ h[1].message = LinkInText
    /\ \E k \in Calls(h[1], "downloadMedia") :
          h[1].log[k].text = "Media not found or failed to fetch."
    /\ h[1].log[Len(h[1].log)].text = "tiktok"
    /\ \E r \in db : r.by = 2

\* C7: two handlers that hold a written file they have not finished sending
\* hold different files: none overwrites, sends or deletes the other's.
C7_UniqueTempFiles ==
    \A i, j \in Handlers :
        (/\ i /= j
         /\ h[i].pc \in {"send", "fallback"}
         /\ h[j].pc \in {"send", "fallback", "unlink"})
        => h[i].filePath /= h[j].filePath

Handled(i) == h[i].pc /= "idle"
IsCommand(i) == startsWith(h[i].message, <<"/">>)
ReachedMatcher(i) == Made(i, "identifyPlatform")

\* a non-command text that is not taken for a link gets the 'please send a
\* link' notice and nothing else
OnlySendLinkNotice(i) ==
    /\ h[i].pc = "done"
    /\ Len(h[i].log) = 1
    /\ h[i].log[1].call = "reply:sendLink"
    /\ ~ \E r \in db : r.by = i

\* C8 as stated: a non-command text reaches the matcher if and only if it
\* starts with http or www.; any other gets only the notice.
C8_Original_StartsWith ==
    \A i \in Handlers :
        (Handled(i) /\ ~IsCommand(i))
        => LET link == \/ startsWith(h[i].message, <<"h","t","t","p">>)
                       \/ startsWith(h[i].message, <<"w","w","w",".">>)
           IN  /\ ReachedMatcher(i) <=> link
               /\ ~link => OnlySendLinkNotice(i)

\* C8 amended: a non-command text reaches the matcher if and only if it
\* contains http or www. anywhere (compared case-sensitively); any other
\* gets only the notice and reaches neither matcher, extraction nor store.
C8_ContainsHttpOrWww ==
    \A i \in Handlers :
        (Handled(i) /\ ~IsCommand(i))
        => LET link == \E k \in 1..(Len(h[i].message) - 3) :
                          \/ SubSeq(h[i].message, k, k + 3) = <<"h","t","t","p">>
                          \/ SubSeq(h[i].message, k, k + 3) = <<"w","w","w",".">>
           IN  /\ ReachedMatcher(i) <=> link
               /\ link => h[i].log[1].call = "identifyPlatform"
               /\ ~link => /\ OnlySendLinkNotice(i)
                           /\ ~Made(i, "downloadMedia")

\* C8 witness: a link that follows other text reached the matcher and
\* extraction, and its record was persisted
C8_Witness ==
    /\ h[1].message = LinkInText
    /\ ~startsWith(h[1].message, <<"h","t","t","p">>)
    /\ h[1].platform = "tiktok"
    /\ Made(1, "downloadMedia") /\ \E r \in db : r.by = 1

(***************************************************************************)
(* Claims about the platform tag, the step order and the shape choice      *)
(***************************************************************************)
\* what the matcher answers for each message under the deployment's rules
MatcherAnswer ==
    [m \in Messages |-> scanPlatforms(toLowerCase(m), TikTokRules, 1)]

\* the payload's declared source, else the matcher's answer for the original
\* input url, else 'unknown'
DeclaredPlatform(url, resp) ==
    IF resp.source /= "" THEN resp.source
    ELSE IF MatcherAnswer[url] /= null THEN MatcherAnswer[url]
    ELSE "unknown"

\* C11: the platform of every result of downloadMedia is the payload's
\* source when present, else identifyPlatform of the original input url, else
\* 'unknown', for both payload shapes; and the record persisted for a message
\* carries this value, not the platform the handler identified.
C11_PlatformTagPersisted ==
    /\ platformPatterns = TikTokRules
    /\ \A i \in Handlers :
         h[i].mediaInfo.ok
         => LET declared == DeclaredPlatform(h[i].message, h[i].resp)
            IN  /\ h[i].mediaInfo.platform = declared
                /\ \A r \in db :
                      r.by = i => /\ r.platform = declared
                                  /\ r.original_url = h[i].message

\* C11 over every response and input url of the selector check, where the
\* input url may match no rule
C11_PlatformTagOfResult ==
    /\ platformPatterns = TikTokRules
    /\ (Selected /\ fn.ret.ok)
         => fn.ret.platform = DeclaredPlatform(fn.url, fn.resp)

\* C11 witness: a payload declaring a source was persisted under that source
\* although the handler had identified tiktok, and another handler's
\* single-URL payload without a source was persisted under the matcher's answer
C11_Witness ==
    /\ h[1].platform = "tiktok"
    /\ h[1].resp.source = "srcname"
    /\ h[2].resp.medias = <<>> /\ h[2].resp.source = ""
    /\ \E r \in db : r.by = 1 /\ r.platform = "srcname"
    /\ \E r \in db : r.by = 2 /\ r.platform = "tiktok"

DeliveryCalls ==
    SendCalls \cup {"reply:downloading", "axios.get", "writeFileSync",
                    "unlink", "reply:sendFailed"}

\* C12: in one handler extraction precedes persistence, which precedes
\* delivery: a save is attempted only after downloadMedia returned a result,
\* every delivery call comes after the successful save of that message's
\* record, and a failed save ends the handler with one handler error notice
\* and no media download and no send.
C12_StepsInOrder ==
    \A i \in Handlers :
        LET log == h[i].log
            extracted == {d \in 1..Len(log) : log[d].call = "downloadMedia" /\ log[d].ok}
            saved == {v \in 1..Len(log) : log[v].call = "saveVideo" /\ log[v].ok}
        IN  /\ \A k \in 1..Len(log) :
                  /\ log[k].call = "saveVideo" => \E d \in extracted : d < k
                  /\ log[k].call \in DeliveryCalls
                        => /\ \E v \in saved : v < k
                           /\ \E r \in db : r.by = i
            /\ Failed(i, "saveVideo")
                  => /\ h[i].pc = "done"
                     /\ ~ \E r \in db : r.by = i
                     /\ \A k \in 1..Len(log) : log[k].call \notin DeliveryCalls
                     /\ Cardinality(Calls(h[i], "reply:handlerError")) = 1
                     /\ log[Len(log)].call = "reply:handlerError"
                     /\ log[Len(log) - 1].call = "saveVideo"

\* C12 witness: one handler's save failed and it ended with the notice,
\* while another saved its record and delivered its file
C12_Witness ==
    /\ Failed(1, "saveVideo")
    /\ h[1].pc = "done"
    /\ Made(1, "reply:handlerError")
    /\ Made(2, "saveVideo") /\ Made(2, "replyWithVideo")
    /\ h[2].pc = "done"

\* the media list holds a candidate the selection can use
Usable(m) ==
    \/ m.type \in {"video", "audio", "image"}
    \/ m.extension \in {<<"j","p","g">>, <<"p","n","g">>}

\* C13: with a non-empty media list the bare url is never consulted: the
\* result, if any, is a candidate of the list, and a list without a video,
\* audio or image candidate fails with 'Media not found' even beside a
\* usable bare url; a result taken from the bare url implies that the media
\* list is absent or empty.
C13_BareUrlOnlyWithoutMedias ==
    Selected =>
        LET ms == fn.resp.medias
        IN  /\ Len(ms) > 0
                  => /\ fn.ret.ok => /\ \E k \in 1..Len(ms) : fn.ret.mediaUrl = ms[k].url
                                     /\ fn.ret.mediaUrl /= fn.resp.url
                     /\ (\A k \in 1..Len(ms) : ~Usable(ms[k]))
                           => /\ ~fn.ret.ok
                              /\ fn.ret.error = "Media not found or failed to fetch."
            /\ (fn.ret.ok /\ fn.ret.mediaUrl = fn.resp.url) => Len(ms) = 0

\* C13 witness: a list of two unusable candidates beside a usable bare url
\* made the call fail
C13_Witness ==
    /\ Selected
    /\ Len(fn.resp.medias) = 2
    /\ \A k \in 1..2 : ~Usable(fn.resp.medias[k])
    /\ fn.resp.url = <<"a",".","p","n","g">>
    /\ ~fn.ret.ok
    /\ fn.ret.error = "Media not found or failed to fetch."

====
